---- MODULE Spec2Model ----
(***************************************************************************)
(* rusty-podmon: the container monitor of src/monitor.rs with the          *)
(* per-container lifecycle record of src/state.rs.                         *)
(*                                                                         *)
(* Time is counted in whole seconds.  The program reads an Instant only    *)
(* through elapsed(), so a stored Instant is represented by the seconds    *)
(* elapsed since it: Instant::now() is 0, and the passage of d seconds     *)
(* adds d to every stored Instant, up to ElapsedCap ("that long or more"). *)
(* The external world (the config file, the compose files on disk,         *)
(* `podman ps`, `podman-compose down/up`) is not stored: every call into   *)
(* it draws its result from the set of results the call can produce.       *)
(*                                                                         *)
(* run() is one task: a handler started by select! runs to its end before  *)
(* select! is polled again.  check_and_restart_containers suspends at the  *)
(* settling sleep of every restart attempt, so it is one CheckBegin step   *)
(* followed by one RestartOne step per selected container; while the loop  *)
(* is in progress (busy) no other step of the program is enabled.  The     *)
(* interval periods are configuration values: a tick may be ready whenever *)
(* select! is polled, the first one immediately.                           *)
(***************************************************************************)
EXTENDS Integers, Sequences, FiniteSets, TLC

VARIABLES
    config,              \* ContainerMonitor.config (the active configuration)
    managed,             \* MonitorState.managed_containers : name -> ContainerState
    running_containers,  \* MonitorState.running_containers (stored observed set)
    pc,                  \* position in ContainerMonitor::run
    busy,                \* inside the restart loop of check_and_restart_containers
    todo,                \* unconsumed part of containers_to_restart (the names)
    cycle,               \* history: what the current/last check cycle read and decided
                         \*   (its reload is recorded under SpecReloads only, and kept
                         \*   until the next step; the records a rediscovery reset are
                         \*   recorded under SpecResets only)
    attempts,            \* history: the restart attempts of the current/last cycle, in order
    last_failure,        \* history: the latest record_failure(): whose, and its Instant
                         \*   (recorded under SpecFailures only)
    report,              \* history: what print_status logged, if it was the latest
                         \*   step of the program (recorded under SpecStatus only)
    call,                \* history: the ContainerState method the latest step applied
                         \*   (recorded under SpecRecord only)
    disk                 \* history: what each configured descriptor was on disk when
                         \*   discover_containers last ran (recorded under SpecDiscover only)

vars == <<config, managed, running_containers, pc, busy, todo,
          cycle, attempts, last_failure, report, call, disk>>

----------------------------------------------------------------------------
(* Bounds of the model *)

\* Elapsed seconds are counted up to ElapsedCap.  `elapsed < backoff_duration`
\* is exact while the duration compared is at most ElapsedCap; the program
\* evaluates it only for records below the failure threshold, that is for at
\* most 2^(3-1) = 4 seconds with the thresholds of MaxFailureChoices.
ElapsedCap == 4
\* record_success is not applied to a record beyond this restart_count.
MaxRestarts == 1
\* SpecRecord does not apply record_failure to a record beyond this
\* consecutive_failures (the cap of the backoff exponent is 6).
MaxStreak == 8

(* Program constants *)

SettleDelay == 10
BackoffCapExp == 6

----------------------------------------------------------------------------
(* The environment's inputs *)

Names == {"a", "b"}
Files == {"f1", "f2"}

\* What ComposeParser::parse_containers yields for a loadable descriptor.
Declared(f) ==
    IF f = "f1" THEN <<"a", "b">> ELSE IF f = "f3" THEN <<"b">> ELSE <<"a">>

\* A descriptor on disk: present and well-formed, absent, or unparsable.
DiskStates == {"ok", "missing", "malformed"}

ComposeLists == {<<"f1">>, <<"f1", "f2">>}
\* max_consecutive_failures is an unvalidated u32: 0 is a value it can have.
MaxFailureChoices == {0, 1, 3}

\* The values Config::from_file can yield on success.
Configs == [compose_files : ComposeLists, max_consecutive_failures : MaxFailureChoices]

\* Option<T> as a sequence of length at most one.
None == <<>>
Some(x) == <<x>>

\* Result<T> likewise: Err is the empty sequence.
Err == <<>>
Ok(x) == <<x>>

QueryResults == {Err} \cup {Ok(s) : s \in SUBSET Names}
ReloadResults == {Err} \cup {Ok(c) : c \in Configs}
RestartResults == {"ok", "err"}

Range(s) == {s[i] : i \in 1..Len(s)}

----------------------------------------------------------------------------
(* src/state.rs : ContainerState *)

ContainerState_new(compose_file) ==
    [compose_file |-> compose_file, last_restart |-> None,
     restart_count |-> 0, consecutive_failures |-> 0]

Min(x, y) == IF x < y THEN x ELSE y

\* Mutant: the exponent is not capped.
backoff_duration_uncapped(st) == 2 ^ st.consecutive_failures

\* Mutant: the exponent is one too large.
backoff_duration_doubled(st) == 2 ^ (Min(st.consecutive_failures, BackoffCapExp) + 1)

backoff_duration(st) == 2 ^ Min(st.consecutive_failures, BackoffCapExp)

\* Instant::now(), and an Optional Instant d seconds later.
Instant_now == 0
Later(instant, d) ==
    IF instant = None THEN None ELSE Some(Min(instant[1] + d, ElapsedCap))

\* time.elapsed()
elapsed(instant) == instant

\* Mutant: the backoff test never holds.
is_in_backoff_never(st) == FALSE

is_in_backoff(st) ==
    IF st.last_restart = None
    THEN FALSE
    ELSE elapsed(st.last_restart[1]) < backoff_duration(st)

record_success(st) ==
    [st EXCEPT !.restart_count = @ + 1,
               !.last_restart = Some(Instant_now),
               !.consecutive_failures = 0]

\* Mutant: a failed attempt is counted as a restart too.
record_failure_counts_restart(st) ==
    [st EXCEPT !.consecutive_failures = @ + 1,
               !.restart_count = @ + 1,
               !.last_restart = IF @ = None THEN Some(Instant_now) ELSE @]

\* Mutant: every failure stamps the record anew.
record_failure_restamps(st) ==
    [st EXCEPT !.consecutive_failures = @ + 1,
               !.last_restart = Some(Instant_now)]

\* Mutant: a failure is counted without a backoff reference point.
record_failure_unstamped(st) ==
    [st EXCEPT !.consecutive_failures = @ + 1]

record_failure(st) ==
    [st EXCEPT !.consecutive_failures = @ + 1,
               !.last_restart = IF @ = None THEN Some(Instant_now) ELSE @]

\* The records d seconds later.
Elapse(m, d) ==
    [n \in DOMAIN m |-> [m[n] EXCEPT !.last_restart = Later(@, d)]]

(* src/state.rs : MonitorState *)

\* MonitorState::new(): no record.
MonitorState_new == [n \in {} |-> ContainerState_new("f1")]

\* Mutant: the old records are not cleared.
clear_managed_skipped == managed

clear_managed == [n \in {} |-> ContainerState_new("f1")]

add_container(m, name, compose_file) ==
    [n \in DOMAIN m \cup {name} |->
        IF n = name THEN ContainerState_new(compose_file) ELSE m[n]]

update_running(running) == running

\* Mutant: nothing counts as running.
is_running_never(observed, name) == FALSE

is_running(observed, name) == name \in observed

\* Mutant: every observed container is counted, managed or not.
running_managed_count_all(m, observed) ==
    Cardinality(observed)

running_managed_count(m, observed) ==
    Cardinality({n \in DOMAIN m : n \in observed})

----------------------------------------------------------------------------------------------------------------------------------------------------
(* src/monitor.rs : ContainerMonitor *)

RECURSIVE AddAll(_, _, _)
AddAll(m, names, compose_path) ==
    IF names = <<>>
    THEN m
    ELSE AddAll(add_container(m, Head(names), compose_path), Tail(names), compose_path)

\* The loop over config.compose_files; status[i] is what the i-th path is on disk.
RECURSIVE DiscoverFrom(_, _, _)
DiscoverFrom(m, files, status) ==
    IF files = <<>>
    THEN m
    ELSE LET compose_path == Head(files)
             next == IF Head(status) = "missing"
                     THEN m
                     ELSE IF Head(status) = "ok"
                          THEN AddAll(m, Declared(compose_path), compose_path)
                          ELSE m
         IN DiscoverFrom(next, Tail(files), Tail(status))

\* Mutant: the first descriptor that is missing or unparsable ends the loop.
discover_containers_abort(cfg, status) ==
    LET bad == {i \in 1..Len(status) : status[i] # "ok"}
        n == IF bad = {} THEN Len(status)
             ELSE (CHOOSE i \in bad : \A j \in bad : i <= j) - 1
    IN DiscoverFrom(clear_managed, SubSeq(cfg.compose_files, 1, n),
                    SubSeq(status, 1, n))

\* Mutant: a name that is declared again keeps the counters of its old record.
discover_containers_keeps_history(cfg, status) ==
    LET found == DiscoverFrom(clear_managed, cfg.compose_files, status)
    IN [n \in DOMAIN found |->
          IF n \in DOMAIN managed
          THEN [managed[n] EXCEPT !.compose_file = found[n].compose_file]
          ELSE found[n]]

discover_containers(cfg, status) ==
    DiscoverFrom(clear_managed, cfg.compose_files, status)

\* Mutant: the failure threshold is not consulted.
should_restart_container_no_limit(cfg, st) == ~is_in_backoff(st)

\* Mutant: the threshold test is off by one (`>` for `>=`).
should_restart_container_off_by_one(cfg, st) ==
    IF st.consecutive_failures > cfg.max_consecutive_failures
    THEN FALSE
    ELSE IF is_in_backoff(st)
         THEN FALSE
         ELSE TRUE

\* Mutant: the backoff is not consulted.
should_restart_container_no_backoff(cfg, st) ==
    ~(st.consecutive_failures >= cfg.max_consecutive_failures)

should_restart_container(cfg, st) ==
    IF st.consecutive_failures >= cfg.max_consecutive_failures
    THEN FALSE
    ELSE IF is_in_backoff(st)
         THEN FALSE
         ELSE TRUE

\* The filter that builds containers_to_restart.
NeedsRestart(cfg, m, observed) ==
    {n \in DOMAIN m :
        ~is_running(observed, n) /\ should_restart_container(cfg, m[n])}

\* HashMap iteration order is unspecified: any order of the selected names.
Orderings(S) == {s \in [1..Cardinality(S) -> S] : Range(s) = S}

DiskSeqs(files) == [1..Len(files) -> DiskStates]

\* A value of the history that only SpecReloads or SpecFailures records.
Traced(traced, x) == IF traced THEN x ELSE <<>>

\* The history record of a failure d seconds later.
LaterFailure(f, d) ==
    IF f = None THEN None ELSE Some([f[1] EXCEPT !.at = Min(@ + d, ElapsedCap)])

NoCycle ==
    [result |-> "none", reload |-> Err, query |-> "not_run", eligible |-> {},
     returned |-> "ok", reset |-> {}]

\* History of rediscovery: the names whose discarded record had failed its way
\* to the threshold, kept from the rediscovery up to and including the first
\* restart pass after it.
carried_reset(c) == IF c.result = "restart_pass" THEN {} ELSE c.reset
discarded_exhausted(cfg, m) ==
    {n \in DOMAIN m : /\ m[n].consecutive_failures > 0
                      /\ m[n].consecutive_failures >= cfg.max_consecutive_failures}

\* Mutant: the reloaded list is compared with itself.
config_changed_self(new_config, cfg) ==
    new_config.compose_files # new_config.compose_files

\* Mutant: a difference in any setting counts as a change.
config_changed_any(new_config, cfg) == new_config # cfg

\* Whether a reloaded configuration replaces the active one.
config_changed(new_config, cfg) == new_config.compose_files # cfg.compose_files

\* Mutant: a failed query is taken for an empty running set.
query_outcome_swallowed(query) == "update"

\* `get_running_containers().map_err(..)?` at the start of a cycle.
query_outcome(query) == IF query = Err THEN "propagate" ELSE "update"

\* How run() continues when check_and_restart_containers returns `result`:
\* `?` on startup_recovery, `if let Err(e)` in the loop.
run_after_check(at, result) ==
    IF at = "startup_recovery"
    THEN IF result = "ok" THEN "loop" ELSE "exited"
    ELSE "loop"

\* Mutant: any successful verification query counts as a verified restart.
attempt_outcome_any(name, restart, verify) ==
    IF restart = "err" THEN "invoke_failed"
    ELSE IF verify = Err THEN "verify_failed"
    ELSE "running"

\* Outcome of one attempt from the restart result and the verification query.
attempt_outcome(name, restart, verify) ==
    IF restart = "err" THEN "invoke_failed"
    ELSE IF verify = Err THEN "verify_failed"
    ELSE IF name \in verify[1] THEN "running"
    ELSE "absent"

\* The record update of one restart attempt.
apply_outcome(st, outcome) ==
    IF outcome = "invoke_failed" THEN record_failure(st)
    ELSE IF outcome = "verify_failed" THEN st
    ELSE IF outcome = "running" THEN record_success(st)
    ELSE record_failure(st)

\* Mutant: a failed verification query aborts the cycle (`?`).
remaining_after_abort(outcome, rest) ==
    IF outcome = "verify_failed" THEN <<>> ELSE rest

\* Mutant: the containers owned by the descriptor just restarted are dropped
\* from the rest of the list.
remaining_after_unit_done(outcome, rest) ==
    LET other_unit(n) == managed[n].compose_file # managed[Head(todo)].compose_file
    IN SelectSeq(rest, other_unit)

\* What the restart loop still has to process after an attempt ended `outcome`.
remaining_after(outcome, rest) == rest

\* Mutant: the verification query refreshes the stored observed set.
observed_after_attempt_refreshed(observed, verify) ==
    IF verify = Err THEN observed ELSE verify[1]

\* The stored observed set after an attempt whose verification query gave
\* `verify`: the result is a local of the loop body and is not stored.
observed_after_attempt(observed, verify) == observed

\* Mutant: the intervals are created, and polled, before startup recovery.
select_polled_early(at, in_handler) ==
    at \in {"startup_recovery", "loop"} /\ ~in_handler

\* Mutant: the handlers are spawned, and select! is polled while one runs.
select_polled_concurrent(at, in_handler) == at = "loop"

\* run() polls select! only between handlers: the arm's body, with everything
\* it awaits, is part of the loop iteration.
select_polled(at, in_handler) == at = "loop" /\ ~in_handler

\* Mutant: the settling sleep comes before the result is looked at.
attempt_delay_always(restart) == SettleDelay

\* Seconds the attempt takes: the settling sleep after a successful invocation.
attempt_delay(restart) == IF restart = "ok" THEN SettleDelay ELSE 0

\* Whether the attempt re-queries the running set: in the Ok(()) arm only.
verification_queried(restart) == restart = "ok"

----------------------------------------------------------------------------
(* Actions *)

\* run(): self.discover_containers().await?
InitialDiscovery ==
    /\ pc = "discover"
    /\ \E status \in DiskSeqs(config.compose_files) :
         managed' = discover_containers(config, status)
    /\ pc' = "startup_recovery"
    /\ UNCHANGED <<config, running_containers, busy, todo, cycle, attempts,
                   last_failure, report, call, disk>>

\* Mutant: a reload that fails yields an empty default configuration.
reloaded_config_default(reload, cfg) ==
    IF reload = Err
    THEN [compose_files |-> <<>>, max_consecutive_failures |-> 3]
    ELSE reload[1]

\* The configuration the reload step compares with the active one: the one
\* Config::from_file loaded; a failed load is logged and compares nothing.
reloaded_config(reload, cfg) == IF reload = Err THEN cfg ELSE reload[1]

\* Mutant: the early return on an empty managed set is missing.
nothing_to_check_never(m) == FALSE

\* The test `managed_containers.is_empty()` that ends a cycle before the query.
nothing_to_check(m) == DOMAIN m = {}

\* check_and_restart_containers up to the start of the restart loop, called by
\* startup_recovery or by the check branch of select!.
CheckBegin(traced, resets) ==
    /\ \/ pc = "startup_recovery" /\ ~busy
       \/ select_polled(pc, busy)
    /\ attempts' = <<>>
    /\ report' = None
    /\ UNCHANGED <<call, disk>>
    /\ \E reload \in ReloadResults :
         IF config_changed(reloaded_config(reload, config), config)
         THEN /\ config' = reloaded_config(reload, config)
              /\ \E status \in DiskSeqs(config'.compose_files) :
                   managed' = discover_containers(config', status)
              /\ last_failure' = None
              /\ cycle' = [result |-> "rediscovered", reload |-> Traced(traced, reload),
                           query |-> "not_run", eligible |-> {}, returned |-> "ok",
                           reset |-> IF resets
                                     THEN discarded_exhausted(config, managed)
                                            \cup carried_reset(cycle)
                                     ELSE {}]
              /\ pc' = run_after_check(pc, "ok")
              /\ UNCHANGED <<running_containers, busy, todo>>
         ELSE /\ UNCHANGED <<config, managed, last_failure>>
              /\ IF nothing_to_check(managed)
                 THEN /\ cycle' = [result |-> "empty", reload |-> Traced(traced, reload),
                                   query |-> "not_run", eligible |-> {},
                                   returned |-> "ok",
                                   reset |-> carried_reset(cycle)]
                      /\ pc' = run_after_check(pc, "ok")
                      /\ UNCHANGED <<running_containers, busy, todo>>
                 ELSE \E query \in QueryResults :
                        IF query_outcome(query) = "propagate"
                        THEN /\ cycle' = [result |-> "query_failed",
                                          reload |-> Traced(traced, reload),
                                          query |-> "failed", eligible |-> {},
                                          returned |-> "err",
                                          reset |-> carried_reset(cycle)]
                             /\ pc' = run_after_check(pc, "err")
                             /\ UNCHANGED <<running_containers, busy, todo>>
                        ELSE LET observed == update_running(
                                                 IF query = Err THEN {} ELSE query[1])
                                 sel == NeedsRestart(config, managed, observed)
                             IN /\ running_containers' = observed
                                /\ cycle' = [result |-> "restart_pass",
                                             reload |-> Traced(traced, reload),
                                             query |-> IF query = Err THEN "failed"
                                                       ELSE "ok",
                                             eligible |-> sel,
                                             returned |-> IF sel = {} THEN "ok"
                                                          ELSE "pending",
                                             reset |-> carried_reset(cycle)]
                                /\ IF sel = {}
                                   THEN todo' = <<>>
                                   ELSE \E order \in Orderings(sel) : todo' = order
                                /\ busy' = (sel # {})
                                /\ pc' = IF sel = {} THEN run_after_check(pc, "ok")
                                         ELSE pc

\* One iteration of the restart loop: restart_compose_service, the settling
\* sleep, the verification query, the record update.
RestartOne(traced) ==
    /\ busy
    /\ todo # <<>>
    /\ \E restart \in RestartResults :
       \E verify \in (IF verification_queried(restart) THEN QueryResults ELSE {Err}) :
         LET name == Head(todo)
             outcome == attempt_outcome(name, restart, verify)
             d == attempt_delay(restart)
             rest == remaining_after(outcome, Tail(todo))
             aged == LaterFailure(last_failure, d)
         IN /\ outcome = "running" => managed[name].restart_count < MaxRestarts
            /\ managed' = [Elapse(managed, d) EXCEPT ![name] = apply_outcome(@, outcome)]
            /\ attempts' = Append(attempts, [name |-> name, restart |-> restart,
                                             queried |-> verification_queried(restart),
                                             verify |-> verify])
            /\ last_failure' =
                 IF managed'[name].consecutive_failures
                      > managed[name].consecutive_failures
                 THEN Traced(traced, Some([name |-> name, at |-> Instant_now]))
                 ELSE IF managed'[name].consecutive_failures = 0
                         /\ aged # None /\ aged[1].name = name
                      THEN None
                      ELSE aged
            /\ todo' = rest
            /\ busy' = (rest # <<>>)
            /\ cycle' = [cycle EXCEPT !.returned = IF rest = <<>> THEN "ok" ELSE @,
                                      !.reload = Err]
            /\ pc' = IF rest = <<>> THEN run_after_check(pc, "ok") ELSE pc
            /\ running_containers' = observed_after_attempt(running_containers, verify)
    /\ report' = None
    /\ UNCHANGED <<config, call, disk>>

\* What print_status logs: the totals, and a line for every record with history.
print_status(m, observed) ==
    [total |-> Cardinality(DOMAIN m),
     running |-> running_managed_count(m, observed),
     history |-> {[name |-> n, restarts |-> m[n].restart_count,
                   failures |-> m[n].consecutive_failures] :
                     n \in {x \in DOMAIN m : \/ m[x].restart_count > 0
                                              \/ m[x].consecutive_failures > 0}}]

\* The status branch of select!: print_status reads and logs, nothing else.
PrintStatus(traced) ==
    /\ select_polled(pc, busy)
    /\ report' = IF traced THEN Some(print_status(managed, running_containers))
                 ELSE report
    /\ cycle' = [cycle EXCEPT !.reload = Err]
    /\ UNCHANGED <<config, managed, running_containers, pc, busy, todo,
                   attempts, last_failure, call, disk>>

\* A second passes while run() waits in select!.
Tick ==
    /\ select_polled(pc, busy)
    /\ managed' = Elapse(managed, 1)
    /\ last_failure' = LaterFailure(last_failure, 1)
    /\ report' = None
    /\ cycle' = [cycle EXCEPT !.reload = Err]
    /\ UNCHANGED <<config, running_containers, pc, busy, todo, attempts, call, disk>>

Init ==
    /\ config \in Configs
    /\ managed = MonitorState_new
    /\ running_containers = {}
    /\ pc = "discover"
    /\ busy = FALSE
    /\ todo = <<>>
    /\ cycle = NoCycle
    /\ attempts = <<>>
    /\ last_failure = None
    /\ report = None
    /\ call = "none"
    /\ disk = <<>>

Next ==
    \/ InitialDiscovery
    \/ CheckBegin(FALSE, FALSE)
    \/ RestartOne(FALSE)
    \/ PrintStatus(FALSE)
    \/ Tick

Spec == Init /\ [][Next]_vars

\* The same program, with the result of every configuration reload recorded.
NextReloads ==
    \/ InitialDiscovery
    \/ CheckBegin(TRUE, FALSE)
    \/ RestartOne(FALSE)
    \/ PrintStatus(FALSE)
    \/ Tick

SpecReloads == Init /\ [][NextReloads]_vars

\* The same program, with the time of the latest recorded failure kept.
NextFailures ==
    \/ InitialDiscovery
    \/ CheckBegin(FALSE, FALSE)
    \/ RestartOne(TRUE)
    \/ PrintStatus(FALSE)
    \/ Tick

SpecFailures == Init /\ [][NextFailures]_vars

\* The same program, with the exhausted records a rediscovery discards recorded.
NextResets ==
    \/ InitialDiscovery
    \/ CheckBegin(FALSE, TRUE)
    \/ RestartOne(FALSE)
    \/ PrintStatus(FALSE)
    \/ Tick

SpecResets == Init /\ [][NextResets]_vars

\* The same program, with the output of every print_status recorded.
NextStatus ==
    \/ InitialDiscovery
    \/ CheckBegin(FALSE, FALSE)
    \/ RestartOne(FALSE)
    \/ PrintStatus(TRUE)
    \/ Tick

SpecStatus == Init /\ [][NextStatus]_vars

----------------------------------------------------------------------------
(* One ContainerState on its own: any sequence of record_success,
   record_failure and waiting, from any value a record can have. *)

\* The values of a record: fresh, or stamped by the calls that gave it history.
RecordInputs ==
    {ContainerState_new("f1")} \cup
    {st \in [compose_file : {"f1"}, last_restart : {Some(t) : t \in 0..ElapsedCap},
             restart_count : 0..MaxRestarts, consecutive_failures : 0..MaxStreak] :
        st.restart_count > 0 \/ st.consecutive_failures > 0}

InitRecord ==
    /\ config = [compose_files |-> <<"f1">>, max_consecutive_failures |-> 1]
    /\ managed \in {[n \in {"a"} |-> st] : st \in RecordInputs}
    /\ running_containers = {}
    /\ pc = "record"
    /\ busy = FALSE
    /\ todo = <<>>
    /\ cycle = NoCycle
    /\ attempts = <<>>
    /\ last_failure = None
    /\ report = None
    /\ call = "none"
    /\ disk = <<>>

RecordSuccess ==
    /\ pc = "record"
    /\ managed["a"].restart_count < MaxRestarts
    /\ managed' = [managed EXCEPT !["a"] = record_success(@)]
    /\ call' = "record_success"
    /\ UNCHANGED <<config, running_containers, pc, busy, todo, cycle, attempts,
                   last_failure, report, disk>>

RecordFailure ==
    /\ pc = "record"
    /\ managed["a"].consecutive_failures < MaxStreak
    /\ managed' = [managed EXCEPT !["a"] = record_failure(@)]
    /\ call' = "record_failure"
    /\ UNCHANGED <<config, running_containers, pc, busy, todo, cycle, attempts,
                   last_failure, report, disk>>

\* A second passes between two calls.
RecordWait ==
    /\ pc = "record"
    /\ managed' = Elapse(managed, 1)
    /\ call' = "none"
    /\ UNCHANGED <<config, running_containers, pc, busy, todo, cycle, attempts,
                   last_failure, report, disk>>

NextRecord ==
    \/ RecordSuccess
    \/ RecordFailure
    \/ RecordWait

SpecRecord == InitRecord /\ [][NextRecord]_vars

----------------------------------------------------------------------------
(* discover_containers alone, over lists of up to three descriptors *)

\* The longest list of compose_files tried.
MaxDescriptors == 3

\* The lists of compose_files tried: different paths, in any order.
DiscoverLists ==
    {fs \in UNION {[1..n -> Files \cup {"f3"}] : n \in 1..MaxDescriptors} :
        \A i, j \in 1..Len(fs) : i # j => fs[i] # fs[j]}

InitDiscover ==
    /\ config \in [compose_files : DiscoverLists, max_consecutive_failures : {3}]
    /\ managed = MonitorState_new
    /\ running_containers = {}
    /\ pc = "discover"
    /\ busy = FALSE
    /\ todo = <<>>
    /\ cycle = NoCycle
    /\ attempts = <<>>
    /\ last_failure = None
    /\ report = None
    /\ call = "none"
    /\ disk = <<>>

\* discover_containers runs to its `Ok(())` over descriptors in any state.
Discover ==
    /\ pc = "discover"
    /\ \E status \in DiskSeqs(config.compose_files) :
         /\ managed' = discover_containers(config, status)
         /\ disk' = status
    /\ pc' = "discovered"
    /\ UNCHANGED <<config, running_containers, busy, todo, cycle, attempts,
                   last_failure, report, call>>

\* The configuration file names another list before the next discovery.
Reconfigure ==
    /\ pc = "discovered"
    /\ \E files \in DiscoverLists :
         config' = [config EXCEPT !.compose_files = files]
    /\ pc' = "discover"
    /\ UNCHANGED <<managed, running_containers, busy, todo, cycle, attempts,
                   last_failure, report, call, disk>>

NextDiscover ==
    \/ Discover
    \/ Reconfigure

SpecDiscover == InitDiscover /\ [][NextDiscover]_vars

----------------------------------------------------------------------------
(* Steps and states the properties speak about *)

\* A step of Tick: a second passes and nothing else happens.
IsTick ==
    /\ UNCHANGED <<config, running_containers, pc, busy, todo, attempts, call, disk>>
    /\ report' = None
    /\ cycle' = [cycle EXCEPT !.reload = Err]
    /\ managed' = Elapse(managed, 1)
    /\ last_failure' = LaterFailure(last_failure, 1)

\* A step of PrintStatus, where its output is recorded.
IsStatus == report' # None

\* A step of PrintStatus, where its output is not recorded.
IsPrint ==
    /\ UNCHANGED <<config, managed, running_containers, pc, busy, todo, attempts,
                   last_failure, report, call, disk>>
    /\ cycle' = [cycle EXCEPT !.reload = Err]

\* A step that starts a check cycle (CheckBegin).
BeginStep ==
    /\ ~busy
    /\ pc \in {"startup_recovery", "loop"}
    /\ ~IsStatus
    /\ ~IsPrint
    /\ ~IsTick

\* A step that issues one restart invocation (RestartOne), for Head(todo).
AttemptStep == busy

\* The state right after a cycle fixed a non-empty eligible set: nothing of it
\* has been attempted yet and no time has passed since.
JustSelected == busy /\ attempts = <<>>

Tried == {attempts[i].name : i \in 1..Len(attempts)}

Exhausted(st) == st.consecutive_failures >= config.max_consecutive_failures

----------------------------------------------------------------------------
(* C1 *)

\* C1: every restart invocation is issued for a managed container whose record
\* has consecutive_failures < max_consecutive_failures at that moment; an
\* exhausted record gets none, whatever time has elapsed since last_restart.
C1_ExhaustedNeverRestarted ==
    [][AttemptStep =>
         /\ Head(todo) \in DOMAIN managed
         /\ ~Exhausted(managed[Head(todo)])
         /\ attempts'[Len(attempts')].name = Head(todo)]_vars

\* An exhausted container, absent from the observed set and past its backoff,
\* was left out of the eligible set a cycle has just computed.
C1_Witness ==
    /\ JustSelected
    /\ \E c \in DOMAIN managed :
         /\ Exhausted(managed[c])
         /\ ~is_running(running_containers, c)
         /\ ~is_in_backoff(managed[c])
         /\ c \notin cycle.eligible
         /\ c \notin Range(todo)

----------------------------------------------------------------------------
(* C2 *)

\* C2 as claimed: after a failure of container c recorded at time t leaving
\* consecutive_failures = n, no restart invocation for c before
\* t + backoff_duration(n), whichever failure of the streak it was.
C2_DelayAfterEveryFailure ==
    [][(AttemptStep /\ last_failure # None /\ last_failure[1].name = Head(todo)) =>
         elapsed(last_failure[1].at) >= backoff_duration(managed[Head(todo)])]_vars

\* C2 amended: after a recorded failure of c, no restart invocation for c is
\* issued before last_restart_time + backoff_duration(n), where last_restart_time
\* is the record's own timestamp: the time of that failure only if the record
\* had none before it, otherwise the earlier time it already held.
C2_DelayFromLastRestartTime ==
    [][(AttemptStep /\ last_failure # None /\ last_failure[1].name = Head(todo)) =>
         LET st == managed[Head(todo)]
         IN /\ st.last_restart # None
            /\ elapsed(st.last_restart[1]) >= backoff_duration(st)
            /\ elapsed(st.last_restart[1]) >= elapsed(last_failure[1].at)]_vars

\* A container with a failure on record is about to be restarted again.
C2_Witness ==
    /\ busy
    /\ last_failure # None
    /\ last_failure[1].name = Head(todo)
    /\ managed[Head(todo)].consecutive_failures >= 2

----------------------------------------------------------------------------
(* C3 *)

\* C3: a container that is in backoff when a cycle computes its eligible set is
\* not in that set, also when it is absent from the observed set, and a cycle
\* issues restart invocations only for members of its eligible set.
C3_BackoffNotRestarted ==
    [][/\ BeginStep =>
            \A c \in DOMAIN managed' :
               is_in_backoff(managed'[c]) =>
                  c \notin cycle'.eligible /\ c \notin Range(todo')
       /\ AttemptStep => Head(todo) \in cycle.eligible]_vars

\* A container absent from the observed set and not exhausted was left out of
\* the eligible set just computed because it is in backoff.
C3_Witness ==
    /\ JustSelected
    /\ \E c \in DOMAIN managed :
         /\ is_in_backoff(managed[c])
         /\ ~Exhausted(managed[c])
         /\ ~is_running(running_containers, c)
         /\ c \notin cycle.eligible

----------------------------------------------------------------------------
(* C4 *)

\* C4 as claimed: in a cycle that reaches the restart pass, every managed
\* container with consecutive_failures = 0 (max_consecutive_failures > 0) that is
\* absent from the observed set is selected for restart.
C4_HealthyAbsentAlwaysSelected ==
    [][(BeginStep /\ cycle'.result = "restart_pass") =>
         \A c \in DOMAIN managed' :
            (/\ managed'[c].consecutive_failures = 0
             /\ config'.max_consecutive_failures > 0
             /\ ~is_running(running_containers', c))
            => c \in cycle'.eligible]_vars

\* C4 amended: ... is selected for restart unless its last_restart_time is set
\* and less than backoff_duration(0) = 1 second has elapsed since it.
C4_HealthyAbsentSelectedOutsideBackoff ==
    [][(BeginStep /\ cycle'.result = "restart_pass") =>
         \A c \in DOMAIN managed' :
            (/\ managed'[c].consecutive_failures = 0
             /\ config'.max_consecutive_failures > 0
             /\ ~is_running(running_containers', c)
             /\ ~(/\ managed'[c].last_restart # None
                  /\ elapsed(managed'[c].last_restart[1]) < 1))
            => c \in cycle'.eligible /\ c \in Range(todo')]_vars

\* A container with a verified restart in its history and no failure since is
\* selected again.
C4_Witness ==
    /\ JustSelected
    /\ \E c \in Range(todo) :
         /\ managed[c].consecutive_failures = 0
         /\ managed[c].restart_count > 0
         /\ managed[c].last_restart # None

----------------------------------------------------------------------------
(* C5 *)

LastAttempt == attempts'[Len(attempts')]

\* The record of the attempted container after record_success() was applied
\* to it once, and after record_failure() was.
SuccessRecorded(before, after) ==
    /\ after.restart_count = before.restart_count + 1
    /\ after.consecutive_failures = 0
FailureRecorded(before, after) ==
    /\ after.restart_count = before.restart_count
    /\ after.consecutive_failures = before.consecutive_failures + 1

\* C5: every restart invocation ends with exactly one of record_success() and
\* record_failure() applied to the container's record, for every outcome of
\* the restart command and of the verification query.
C5_EveryAttemptRecorded ==
    [][AttemptStep =>
         LET c == Head(todo)
         IN SuccessRecorded(managed[c], managed'[c])
              # FailureRecorded(managed[c], managed'[c])]_vars

----------------------------------------------------------------------------
(* C6 *)

\* C6: an attempt on a container with consecutive_failures = 0 and
\* restart_count = 0 whose invocation succeeds ends with restart_count = 1,
\* consecutive_failures = 0 if the re-query contains it, and with
\* consecutive_failures = 1, restart_count = 0, last_restart_time set if the
\* re-query does not; restart_count advances only when the re-query contains it.
C6_VerifiedOutcome ==
    [][AttemptStep =>
         LET c == Head(todo)
             before == managed[c]
             after == managed'[c]
             fresh == before.consecutive_failures = 0 /\ before.restart_count = 0
             queried == LastAttempt.restart = "ok" /\ LastAttempt.verify # Err
         IN /\ LastAttempt.name = c
            /\ (fresh /\ queried /\ c \in LastAttempt.verify[1]) =>
                  after.restart_count = 1 /\ after.consecutive_failures = 0
            /\ (fresh /\ queried /\ c \notin LastAttempt.verify[1]) =>
                  /\ after.consecutive_failures = 1
                  /\ after.restart_count = 0
                  /\ after.last_restart # None
            /\ after.restart_count # before.restart_count =>
                  queried /\ c \in LastAttempt.verify[1]]_vars

\* Both scenarios happened in one cycle: a fresh container verified running and
\* a fresh container found absent after a successful invocation.
C6_Witness ==
    /\ ~busy
    /\ \E i, j \in 1..Len(attempts) :
         /\ attempts[i].restart = "ok" /\ attempts[i].verify # Err
         /\ attempts[i].name \in attempts[i].verify[1]
         /\ managed[attempts[i].name].restart_count = 1
         /\ managed[attempts[i].name].consecutive_failures = 0
         /\ attempts[j].restart = "ok" /\ attempts[j].verify # Err
         /\ attempts[j].name \notin attempts[j].verify[1]
         /\ managed[attempts[j].name].restart_count = 0
         /\ managed[attempts[j].name].consecutive_failures = 1

----------------------------------------------------------------------------
(* C7 *)

\* C7: the containers attempted so far in a cycle together with those still
\* queued are exactly its eligible set, each once; so when the cycle ends every
\* eligible container has had its own invocation, whatever the earlier outcomes.
C7_AllEligibleAttempted ==
    /\ Tried \cup Range(todo) = cycle.eligible
    /\ Len(attempts) + Len(todo) = Cardinality(cycle.eligible)
    /\ busy <=> todo # <<>>
    /\ ~busy => Tried = cycle.eligible

\* A cycle ended with two attempts, the first of which failed.
C7_Witness ==
    /\ ~busy
    /\ Len(attempts) = 2
    /\ \/ attempts[1].restart = "err"
       \/ attempts[1].verify = Err
       \/ attempts[1].name \notin attempts[1].verify[1]

----------------------------------------------------------------------------
(* C8 *)

\* C8: a cycle whose runtime query fails invokes no restart, changes no record,
\* keeps the stored observed set and returns the failure to its caller.
C8_QueryFailureSkipsCycle ==
    [][(BeginStep /\ cycle'.query = "failed") =>
         /\ managed' = managed
         /\ running_containers' = running_containers
         /\ config' = config
         /\ todo' = <<>> /\ ~busy' /\ attempts' = <<>>
         /\ cycle'.eligible = {}
         /\ cycle'.returned = "err"]_vars

\* A periodic cycle's query failed while a record had failures on it and the
\* stored observed set was not empty.
C8_Witness ==
    /\ cycle.query = "failed"
    /\ pc = "loop"
    /\ running_containers # {}
    /\ \E c \in DOMAIN managed :
         managed[c].consecutive_failures > 0 /\ ~is_running(running_containers, c)

----------------------------------------------------------------------------
(* C9 *)

\* C9: once the configuration is loaded, no failure of an external call ends
\* the monitor: run() never returns.
C9_NeverTerminates == pc # "exited"

----------------------------------------------------------------------------
(* C10 *)

\* C10: a cycle whose reloaded configuration has another descriptor-path list
\* swaps it in, rediscovers, and returns without a runtime query and without a
\* restart invocation.
C10_ConfigChangeSkipsRestartPass ==
    [][(cycle'.reload # Err
          /\ cycle'.reload[1].compose_files # config.compose_files
          /\ BeginStep) =>
         /\ config' = cycle'.reload[1]
         /\ \E status \in DiskSeqs(config'.compose_files) :
              managed' = discover_containers(config', status)
         /\ cycle'.query = "not_run"
         /\ running_containers' = running_containers
         /\ todo' = <<>> /\ ~busy' /\ attempts' = <<>>
         /\ cycle'.returned = "ok"]_vars

\* After such a periodic cycle a managed container is absent from the stored
\* observed set and eligible, and nothing was attempted.
C10_Witness ==
    /\ cycle.result = "rediscovered"
    /\ cycle.reload # Err
    /\ pc = "loop"
    /\ running_containers # {}
    /\ attempts = <<>>
    /\ ~busy
    /\ \E c \in DOMAIN managed :
         /\ ~is_running(running_containers, c)
         /\ should_restart_container(config, managed[c])

----------------------------------------------------------------------------
(* C11 *)

\* A cycle that loaded a configuration with the active descriptor-path list
\* and another max_consecutive_failures.
SettingOnlyReload ==
    /\ cycle'.reload # Err
    /\ cycle'.reload[1].compose_files = config.compose_files
    /\ cycle'.reload[1].max_consecutive_failures # config.max_consecutive_failures
    /\ BeginStep

\* C11 as claimed: when the reloaded configuration has the active
\* descriptor-path list and another max_consecutive_failures, the new value
\* decides eligibility from that load on, and nothing is rediscovered.
C11_NewSettingTakesEffect ==
    [][SettingOnlyReload =>
         /\ managed' = managed
         /\ config'.max_consecutive_failures
              = cycle'.reload[1].max_consecutive_failures
         /\ cycle'.result = "restart_pass" =>
              cycle'.eligible
                = NeedsRestart(cycle'.reload[1], managed', running_containers')]_vars

\* C11 amended: such a reloaded configuration is dropped: the active
\* configuration, with its max_consecutive_failures, stays in force for the
\* eligibility decisions of this cycle, and nothing is rediscovered; the
\* active configuration is replaced only, and then as a whole, by a loaded one
\* whose descriptor-path list differs from it.
C11_SettingOnlyReloadDropped ==
    [][/\ SettingOnlyReload =>
            /\ managed' = managed
            /\ config' = config
            /\ cycle'.result # "rediscovered"
            /\ cycle'.result = "restart_pass" =>
                 cycle'.eligible
                   = NeedsRestart(config, managed, running_containers')
       /\ config' # config =>
            /\ BeginStep
            /\ cycle'.reload = Ok(config')
            /\ config'.compose_files # config.compose_files]_vars

\* A restart pass has just left out an absent container that is exhausted
\* under the active threshold and would not be under the one it loaded.
C11_Witness ==
    /\ cycle.result = "restart_pass"
    /\ attempts = <<>>
    /\ cycle.reload # Err
    /\ cycle.reload[1].compose_files = config.compose_files
    /\ \E c \in DOMAIN managed :
         /\ ~is_running(running_containers, c)
         /\ c \notin cycle.eligible
         /\ managed[c].consecutive_failures >= config.max_consecutive_failures
         /\ managed[c].consecutive_failures
              < cycle.reload[1].max_consecutive_failures

----------------------------------------------------------------------------
(* C12 *)

\* A step that ran discover_containers: the initial discovery of run(), or a
\* cycle that found the descriptor-path list changed.
DiscoverStep ==
    \/ pc = "discover" /\ pc' = "startup_recovery"
    \/ BeginStep /\ cycle'.result = "rediscovered"

Fresh(st) ==
    /\ st.restart_count = 0
    /\ st.consecutive_failures = 0
    /\ st.last_restart = None

\* The identities declared by the descriptors of `files` that are loadable.
DeclaredBy(files, status) ==
    UNION {Range(Declared(files[i])) : i \in {j \in 1..Len(files) : status[j] = "ok"}}

\* C12: after every discover the managed set is exactly the identities declared
\* by the loadable descriptors of the active configuration, and every record,
\* also of an identity managed before, is fresh; an identity no longer declared
\* has no record.
C12_DiscoverRebuildsFresh ==
    [][DiscoverStep =>
         /\ \E status \in DiskSeqs(config'.compose_files) :
              DOMAIN managed' = DeclaredBy(config'.compose_files, status)
         /\ \A n \in DOMAIN managed' :
              /\ Fresh(managed'[n])
              /\ managed'[n].compose_file \in Range(config'.compose_files)
              /\ n \in Range(Declared(managed'[n].compose_file))]_vars

\* A rediscovery in the run loop has just discarded two exhausted records: one
\* identity is declared again and has a fresh record, the other has none.
C12_Witness ==
    /\ cycle.result = "rediscovered"
    /\ pc = "loop"
    /\ \E c \in cycle.reset : c \in DOMAIN managed /\ Fresh(managed[c])
    /\ \E d \in cycle.reset : d \notin DOMAIN managed

----------------------------------------------------------------------------
(* C13 *)

\* The record of c has reached the threshold through recorded failures.
ReachedMax(c) ==
    /\ managed[c].consecutive_failures > 0
    /\ managed[c].consecutive_failures = config.max_consecutive_failures

\* What C13 says short of the selection after the rediscovery: a cycle does not
\* select a container whose consecutive_failures has reached
\* max_consecutive_failures; a rediscovery that re-adds it leaves it with
\* consecutive_failures = 0, and it keeps that up to the first restart pass;
\* a restart invocation is issued for every selected container.
C13_Frame ==
    /\ BeginStep =>
         \A c \in DOMAIN managed :
            ReachedMax(c) => c \notin cycle'.eligible /\ c \notin Range(todo')
    /\ (BeginStep /\ cycle'.result = "rediscovered") =>
         \A c \in DOMAIN managed :
            ReachedMax(c) =>
               /\ c \in cycle'.reset
               /\ c \in DOMAIN managed' => managed'[c].consecutive_failures = 0
    /\ (BeginStep /\ cycle'.result = "restart_pass") =>
         \A c \in cycle'.reset \cap DOMAIN managed' :
            managed'[c].consecutive_failures = 0
    /\ AttemptStep => LastAttempt.name = Head(todo)

\* C13 as claimed: ... and the first cycle after the rediscovery that reaches
\* the restart pass selects it if it is absent from the observed set.
C13_ExhaustedEligibleAfterRediscovery ==
    [][/\ C13_Frame
       /\ (BeginStep /\ cycle'.result = "restart_pass") =>
            \A c \in cycle'.reset \cap DOMAIN managed' :
               ~is_running(running_containers', c) =>
                  c \in cycle'.eligible /\ c \in Range(todo')]_vars

\* C13 amended: ... selects it if it is absent from the observed set and the
\* max_consecutive_failures of the configuration then active (the one the
\* rediscovery swapped in) is at least 1.
C13_EligibleAfterRediscoveryUnlessZeroMax ==
    [][/\ C13_Frame
       /\ (BeginStep /\ cycle'.result = "restart_pass") =>
            \A c \in cycle'.reset \cap DOMAIN managed' :
               (/\ ~is_running(running_containers', c)
                /\ config'.max_consecutive_failures >= 1) =>
                  c \in cycle'.eligible /\ c \in Range(todo')]_vars

\* A container whose exhausted record a rediscovery discarded is selected by
\* the first restart pass after it.
C13_Witness ==
    /\ JustSelected
    /\ pc = "loop"
    /\ \E c \in cycle.reset :
         /\ c \in Range(todo)
         /\ managed[c].consecutive_failures = 0
         /\ ~is_running(running_containers, c)

----------------------------------------------------------------------------
(* C14 *)

\* C14: every firing of the status timer in the run loop rediscovers besides
\* reporting: after it the managed set is what the descriptors of the active
\* configuration declare and every record is fresh, so that no container is
\* left with the failures that exhausted it.
C14_StatusRediscovers ==
    [][IsStatus =>
         /\ \E status \in DiskSeqs(config.compose_files) :
              DOMAIN managed' = DeclaredBy(config.compose_files, status)
         /\ \A c \in DOMAIN managed' :
              /\ Fresh(managed'[c])
              /\ ~(/\ managed'[c].consecutive_failures > 0
                   /\ Exhausted(managed'[c]))]_vars

----------------------------------------------------------------------------
(* C15 *)

\* C15: while a check handler is in its restart loop, every step is the next
\* iteration of that loop: it consumes the head of the queue and leaves the
\* configuration, the managed identities, the stored observed set and the
\* eligible set alone; the status handler reads, and a check handler starts,
\* only when no handler is in progress.
C15_HandlersDoNotInterleave ==
    [][/\ busy =>
            /\ ~IsStatus
            /\ todo # <<>>
            /\ todo' = Tail(todo)
            /\ attempts' = Append(attempts, LastAttempt)
            /\ LastAttempt.name = Head(todo)
            /\ config' = config
            /\ running_containers' = running_containers
            /\ DOMAIN managed' = DOMAIN managed
            /\ cycle'.eligible = cycle.eligible
            /\ busy' = (todo' # <<>>)
       /\ IsStatus =>
            /\ ~busy /\ ~busy'
            /\ todo = <<>>
            /\ report' = Some(print_status(managed, running_containers))
            /\ managed' = managed /\ config' = config
       /\ BeginStep =>
            /\ todo = <<>>
            /\ cycle.returned # "pending"]_vars

\* A check handler of the run loop is between two restart attempts, the first
\* of which slept through its settling delay.
C15_Witness ==
    /\ pc = "loop"
    /\ busy
    /\ Len(attempts) = 1
    /\ attempts[1].restart = "ok"
    /\ todo # <<>>

----------------------------------------------------------------------------
(* C16 *)

\* C16: run() goes from the initial discovery to startup recovery and from
\* there to the timer loop (or out), never back; the discovery step runs no
\* handler; startup recovery is one check pass, started when no cycle has run
\* yet and left as soon as that pass ends; status reports and waiting on the
\* timers happen in the loop only.
C16_StartupOrder ==
    [][/\ pc' # pc =>
            \/ pc = "discover" /\ pc' = "startup_recovery"
            \/ pc = "startup_recovery" /\ pc' \in {"loop", "exited"}
       /\ pc = "discover" =>
            /\ pc' = "startup_recovery"
            /\ cycle = NoCycle /\ cycle' = NoCycle
            /\ attempts' = <<>> /\ ~busy'
       /\ (pc = "startup_recovery" /\ ~busy) =>
            /\ cycle = NoCycle
            /\ cycle'.result # "none"
       /\ (pc = "startup_recovery" /\ pc' = "startup_recovery") => busy'
       /\ (pc = "startup_recovery" /\ pc' # "startup_recovery") =>
            ~busy' /\ cycle'.returned \in {"ok", "err"}
       /\ IsStatus => pc = "loop" /\ pc' = "loop" /\ cycle # NoCycle
       /\ IsTick => pc = "loop"]_vars

\* The startup recovery pass is between two restart attempts, ten seconds and
\* more after it began, and no timer handler has run.
C16_Witness ==
    /\ pc = "startup_recovery"
    /\ busy
    /\ Len(attempts) = 1
    /\ attempts[1].restart = "ok"
    /\ report = None

----------------------------------------------------------------------------
(* C17 *)

\* C17: record_success sets consecutive_failures to 0 and adds exactly 1 to
\* restart_count; record_failure adds exactly 1 to consecutive_failures and
\* keeps restart_count; restart_count never decreases and changes only by
\* record_success.
C17_CountersOfSuccessAndFailure ==
    [][\A n \in DOMAIN managed :
         /\ call' = "record_success" =>
              /\ managed'[n].consecutive_failures = 0
              /\ managed'[n].restart_count = managed[n].restart_count + 1
         /\ call' = "record_failure" =>
              /\ managed'[n].consecutive_failures
                   = managed[n].consecutive_failures + 1
              /\ managed'[n].restart_count = managed[n].restart_count
         /\ managed'[n].restart_count >= managed[n].restart_count
         /\ managed'[n].restart_count # managed[n].restart_count =>
              call' = "record_success"]_vars

\* record_failure has just been applied, for the second time at least, to a
\* record with a restart on it.
C17_Witness ==
    /\ call = "record_failure"
    /\ managed["a"].restart_count >= 1
    /\ managed["a"].consecutive_failures >= 2

----------------------------------------------------------------------------
(* C18 *)

\* C18: record_failure leaves a last_restart_time that is set as it is and
\* sets an unset one to the time of the call; record_success always sets it to
\* the time of the call.
C18_LastRestartTime ==
    [][\A n \in DOMAIN managed :
         /\ call' = "record_failure" =>
              managed'[n].last_restart
                = IF managed[n].last_restart # None
                  THEN managed[n].last_restart
                  ELSE Some(Instant_now)
         /\ call' = "record_success" =>
              managed'[n].last_restart = Some(Instant_now)]_vars

\* record_failure has just been applied to a record stamped earlier, and the
\* stamp is still the earlier one.
C18_Witness ==
    /\ call = "record_failure"
    /\ managed["a"].last_restart # None
    /\ elapsed(managed["a"].last_restart[1]) > 0

----------------------------------------------------------------------------
(* C19 *)

PowersOfTwo == <<1, 2, 4, 8, 16, 32, 64>>

\* C19: backoff_duration is 1, 2, 4, 8, 16, 32, 64 seconds for 0..6 consecutive
\* failures and 64 seconds for more; it does not decrease when the count grows
\* and never exceeds 64 seconds.
C19_BackoffDuration ==
    \A n \in DOMAIN managed :
       LET st == managed[n]
           k == st.consecutive_failures
           more == [st EXCEPT !.consecutive_failures = k + 1]
       IN /\ backoff_duration(st) = IF k < 6 THEN PowersOfTwo[k + 1] ELSE 64
          /\ backoff_duration(st) <= 64
          /\ backoff_duration(st) <= backoff_duration(more)

\* A record with more than six consecutive failures: the cap decides.
C19_Witness ==
    /\ call = "record_failure"
    /\ managed["a"].consecutive_failures > BackoffCapExp
    /\ backoff_duration(managed["a"]) = 64

----------------------------------------------------------------------------
(* C20 *)

\* C20: an attempt whose restart invocation fails applies record_failure to
\* that container's record at once: no time passes (no stamp of any record
\* grows older), the running set is not queried again, and no other record,
\* nor the configuration or the stored observed set, changes.
C20_InvocationFailureRecordedAtOnce ==
    [][(AttemptStep /\ LastAttempt.restart = "err") =>
         LET c == Head(todo)
         IN /\ LastAttempt.name = c
            /\ ~LastAttempt.queried
            /\ FailureRecorded(managed[c], managed'[c])
            /\ managed'[c].last_restart
                 = IF managed[c].last_restart = None
                   THEN Some(Instant_now)
                   ELSE managed[c].last_restart
            /\ managed'[c].compose_file = managed[c].compose_file
            /\ DOMAIN managed' = DOMAIN managed
            /\ \A o \in DOMAIN managed \ {c} : managed'[o] = managed[o]
            /\ config' = config
            /\ running_containers' = running_containers]_vars

\* Two invocations in a row have just failed: the second was recorded while
\* the stamp the first one set is still zero seconds old.
C20_Witness ==
    /\ Len(attempts) = 2
    /\ attempts[1].restart = "err"
    /\ attempts[2].restart = "err"
    /\ managed[attempts[1].name].last_restart = Some(Instant_now)
    /\ managed[attempts[2].name].consecutive_failures >= 1

----------------------------------------------------------------------------
(* C21 *)

\* C21: a restart is invoked only for a container absent from the observed set
\* the cycle queried at its start; a cycle that observes every managed
\* container running selects nothing, invokes no restart and leaves every
\* record as it is.
C21_OnlyAbsentRestarted ==
    [][/\ AttemptStep =>
            /\ ~is_running(running_containers, Head(todo))
            /\ LastAttempt.name = Head(todo)
       /\ (BeginStep /\ cycle'.result = "restart_pass") =>
            /\ cycle'.eligible \cap running_containers' = {}
            /\ Range(todo') = cycle'.eligible
            /\ DOMAIN managed \subseteq running_containers' =>
                 /\ cycle'.eligible = {}
                 /\ todo' = <<>> /\ ~busy' /\ attempts' = <<>>
                 /\ managed' = managed]_vars

\* A cycle of the run loop observed both managed containers running, one of
\* them with a failure on its record, and attempted nothing.
C21_Witness ==
    /\ pc = "loop"
    /\ cycle.result = "restart_pass"
    /\ Cardinality(DOMAIN managed) = 2
    /\ DOMAIN managed \subseteq running_containers
    /\ attempts = <<>> /\ ~busy
    /\ \E c \in DOMAIN managed :
         /\ managed[c].consecutive_failures > 0
         /\ ~Exhausted(managed[c])

----------------------------------------------------------------------------
(* C22 *)

\* C22: a cycle that finds the managed set empty after its reload step does
\* nothing: no runtime query, the stored observed set kept, no restart
\* selected or invoked, no record created, and it returns success.
C22_EmptyCycleNoOp ==
    [][(DOMAIN managed' = {} /\ BeginStep) =>
          /\ cycle'.query = "not_run"
          /\ running_containers' = running_containers
          /\ cycle'.eligible = {} /\ todo' = <<>> /\ ~busy'
          /\ attempts' = <<>>
          /\ cycle'.returned = "ok"
          /\ pc' = "loop"]_vars

\* A periodic cycle ended on the empty managed set while the stored observed
\* set, left by an earlier cycle, is not empty.
C22_Witness ==
    /\ pc = "loop"
    /\ cycle.result = "empty"
    /\ DOMAIN managed = {}
    /\ running_containers # {}
    /\ cycle.query = "not_run" /\ cycle.returned = "ok"

----------------------------------------------------------------------------
(* C23 *)

\* C23: discover_containers is never ended by a bad descriptor: whatever the
\* descriptors are on disk it returns, and the managed set it leaves holds
\* every container declared by each descriptor that loads (and no other).
C23_BadDescriptorSkipped ==
    pc = "discovered" =>
        /\ Len(disk) = Len(config.compose_files)
        /\ \A i \in 1..Len(disk) :
             disk[i] = "ok" =>
                 Range(Declared(config.compose_files[i])) \subseteq DOMAIN managed
        /\ DOMAIN managed \subseteq DeclaredBy(config.compose_files, disk)

\* Three descriptors, the second unparsable: the containers of the first and of
\* the third are managed.
C23_Witness ==
    /\ pc = "discovered"
    /\ config.compose_files = <<"f2", "f1", "f3">>
    /\ disk = <<"ok", "malformed", "ok">>
    /\ DOMAIN managed = {"a", "b"}
    /\ managed["a"].compose_file = "f2"
    /\ managed["b"].compose_file = "f3"

----------------------------------------------------------------------------
(* C24 *)

\* C24: print_status only reports: the managed set with every field of every
\* record, the stored observed set and the active configuration are what they
\* were, and the running count it logs is the number of managed names in the
\* stored observed set, so at most the managed total it logs.
C24_StatusOnlyReports ==
    [][IsStatus =>
          /\ managed' = managed
          /\ running_containers' = running_containers
          /\ config' = config
          /\ report'[1].total = Cardinality(DOMAIN managed)
          /\ report'[1].running = Cardinality(DOMAIN managed \cap running_containers)
          /\ report'[1].running <= report'[1].total]_vars

\* A status whose running count is positive and smaller than the stored
\* observed set, which holds a name that is not managed.
C24_Witness ==
    /\ report # None
    /\ report[1].running = 1
    /\ report[1].total = 1
    /\ Cardinality(running_containers) = 2
    /\ ~(running_containers \subseteq DOMAIN managed)

----------------------------------------------------------------------------
(* C25 *)

\* C25: in every reachable state the consecutive_failures of every managed
\* record is at most the max_consecutive_failures of the active configuration.
C25_FailuresWithinThreshold ==
    \A c \in DOMAIN managed :
        managed[c].consecutive_failures <= config.max_consecutive_failures

\* One record stands at the largest threshold the configuration can hold while
\* another one has a verified restart and no failure.
C25_Witness ==
    /\ pc = "loop" /\ ~busy
    /\ config.max_consecutive_failures = 3
    /\ \E c, d \in DOMAIN managed :
         /\ managed[c].consecutive_failures = 3
         /\ managed[d].consecutive_failures = 0
         /\ managed[d].restart_count = 1

----------------------------------------------------------------------------
(* C26 *)

\* The restart invocations of the cycle that were given descriptor f.
InvocationsOf(f) ==
    {i \in 1..Len(attempts) : managed[attempts[i].name].compose_file = f}

\* C26: the containers a cycle restarts are fixed by the one snapshot taken at
\* its start: each is invoked at most once, none was in the snapshot, and a
\* finished cycle has invoked the restart of a descriptor once for every
\* eligible container the descriptor owns, whatever earlier invocations of the
\* cycle brought up.
C26_OneInvocationPerContainer ==
    /\ \A i, j \in 1..Len(attempts) :
         i # j => attempts[i].name # attempts[j].name
    /\ \A i \in 1..Len(attempts) :
         /\ attempts[i].name \in cycle.eligible
         /\ attempts[i].name \notin running_containers
    /\ (~busy /\ cycle.result = "restart_pass") =>
         \A f \in Files :
             Cardinality(InvocationsOf(f))
               = Cardinality({c \in cycle.eligible : managed[c].compose_file = f})

\* Two containers of one descriptor were restarted in one cycle; the
\* verification of the first invocation already saw both of them running.
C26_Witness ==
    /\ ~busy
    /\ Len(attempts) = 2
    /\ Cardinality(InvocationsOf("f1")) = 2
    /\ attempts[1].restart = "ok"
    /\ attempts[1].verify # Err
    /\ attempts[1].verify[1] = {attempts[1].name, attempts[2].name}

----------------------------------------------------------------------------
(* C27 *)

\* C27: the stored observed set changes only by the successful runtime query
\* at the start of a check cycle; neither a restart attempt with its
\* verification query, nor a discovery, nor a cycle that rediscovers changes
\* it, so a status printed after the attempts of a cycle counts none of the
\* containers attempted, verified running or not.
C27_ObservedSetOnlyByCycleQuery ==
    [][/\ running_containers' # running_containers =>
            /\ cycle'.query = "ok"
            /\ cycle'.result = "restart_pass"
            /\ BeginStep
       /\ IsStatus =>
            /\ Tried \cap running_containers = {}
            /\ report'[1].running
                 = Cardinality((DOMAIN managed \ Tried) \cap running_containers)]_vars

\* A status printed right after a cycle whose only restart was verified
\* running: it counts no container as running.
C27_Witness ==
    /\ report # None
    /\ report[1].running = 0
    /\ report[1].total >= 1
    /\ Len(attempts) = 1
    /\ attempts[1].restart = "ok"
    /\ attempts[1].verify # Err
    /\ attempts[1].name \in attempts[1].verify[1]
    /\ managed[attempts[1].name].restart_count = 1

----------------------------------------------------------------------------
(* C28 *)

\* C28: in every reachable state a managed record has no last_restart exactly
\* when its restart_count and its consecutive_failures are both 0.
C28_StampedIffHistory ==
    \A c \in DOMAIN managed :
        (managed[c].last_restart = None)
          <=> (managed[c].restart_count = 0 /\ managed[c].consecutive_failures = 0)

\* Of two managed records one never had an attempt recorded and has no
\* last_restart; the other has failures only, and a last_restart.
C28_Witness ==
    \E c, d \in DOMAIN managed :
        /\ managed[c].last_restart = None
        /\ managed[c].restart_count = 0
        /\ managed[c].consecutive_failures = 0
        /\ managed[d].last_restart # None
        /\ managed[d].restart_count = 0
        /\ managed[d].consecutive_failures = 2

----------------------------------------------------------------------------
(* C29 *)

\* C29: a check cycle whose configuration reload fails keeps the active
\* configuration and the managed set, rediscovers nothing, and goes on as
\* a cycle without a change does: with containers managed it queries the
\* runtime and selects, under the configuration that was active before,
\* the containers to restart.
C29_FailedReloadKeepsConfig ==
    [][(cycle'.reload = Err /\ BeginStep) =>
          /\ config' = config
          /\ managed' = managed
          /\ cycle'.result \in {"empty", "query_failed", "restart_pass"}
          /\ DOMAIN managed # {} => cycle'.query \in {"ok", "failed"}
          /\ cycle'.result = "restart_pass" =>
               /\ cycle'.eligible
                    = NeedsRestart(config, managed, running_containers')
               /\ Range(todo') = cycle'.eligible
               /\ busy' = (cycle'.eligible # {})]_vars

\* A periodic cycle whose reload failed has queried the runtime and has
\* selected both managed containers for a restart.
C29_Witness ==
    /\ JustSelected
    /\ pc = "loop"
    /\ cycle.reload = Err
    /\ cycle.query = "ok"
    /\ Cardinality(cycle.eligible) = 2

====
